---- MODULE Spec2Model ----
(***************************************************************************)
(* Model of the opuslib native encoder wrapper.                            *)
(*                                                                         *)
(*   android/src/main/cpp/opus_jni_wrapper.cpp : nativeCreate,             *)
(*       nativeEncode, nativeDestroy (the Encoder Session)                 *)
(*   ios/opus_ctl_helpers.c : the six non-variadic control helpers         *)
(*       (the Codec Control Surface)                                       *)
(*                                                                         *)
(* The codec (libopus) and the JNI runtime are the environment: what they  *)
(* return is chosen nondeterministically inside each action.  Every codec  *)
(* and JNI call an operation makes is recorded, in order, in last.calls;   *)
(* every log line in last.logs.                                            *)
(*                                                                         *)
(* Spec runs the entry points one whole call at a time.  SpecThreads runs  *)
(* them from two threads, one session each, with nativeEncode cut between  *)
(* opus_encode and the copy-out.                                           *)
(***************************************************************************)
EXTENDS Integers, Sequences, FiniteSets, TLC

\* ------------------------------------------------------------------ bounds
NumSessions == 1        \* caller-side sessions (holders of one jlong each)
MaxInst == 2            \* codec instances the allocator can hand out
MaxPackets == 2         \* byte arrays the Java heap has room for

\* --------------------------------------------------------- program constants
NULL == 0               \* nullptr / the jlong 0 returned on failure
OPUS_OK == 0
OutputSize == 4000      \* unsigned char output[4000]

Sessions == 1..NumSessions
Ptrs == 1..MaxInst
ArrayIds == 1..MaxPackets
\* the two threads of a concurrent run; thread t works on session t
Threads == {1, 2}

\* ------------------------------------------------------------ input domains
\* lines 17-21: the rates nativeCreate documents, mono or stereo
SampleRates == {8000, 12000, 16000, 24000, 48000}
Channels == {1, 2}
Bitrates == {-1, 24000}
\* the documented range is 0-100; -5 and 250 lie outside it
DredDurations == {-5, 0, 100, 250}
\* the argument lists create is called with: every documented rate and
\* channel count, and every bitrate and DRED duration above
CreateInputs ==
  [sample_rate : SampleRates, channels : Channels, bitrate : {24000}, dred_duration_ms : {0}]
  \cup [sample_rate : {48000}, channels : {1}, bitrate : Bitrates,
        dred_duration_ms : DredDurations]
CtlValues == {-1, 5}
FrameSizes == {960}
PcmLengths == {960, 1920}

\* statuses the codec can answer with (opus_defines.h error codes)
CreateErrors == {OPUS_OK, -7}          \* OPUS_ALLOC_FAIL
CtlStatuses == {OPUS_OK, -5}           \* OPUS_UNIMPLEMENTED
BitrateStatuses == {OPUS_OK, -1}       \* what OPUS_SET_BITRATE answers in create
DredStatuses == {OPUS_OK, -5}          \* what OPUS_SET_DRED_DURATION answers in create
EncodeErrors == {-1, -3}               \* OPUS_BAD_ARG, OPUS_INTERNAL_ERROR
PacketLengths == {1, OutputSize, OutputSize + 1}
Seeds == {7, 250}

VARIABLES
  handle,     \* handle[s]: the jlong session s holds (what nativeCreate returned)
  heap,       \* heap[p]: "free" (never handed out), "live", "released"
              \* (opus_encoder_destroy(p) called once) or "released_again"
              \* (called more than once)
  enc_channels, \* enc_channels[p]: the channel count instance p was created
              \* with (0 while p is not allocated)
  enc_complexity, \* enc_complexity[p]: <<v>> once OPUS_SET_COMPLEXITY(v) was
              \* accepted on instance p, <<>> while p has the codec's default
  crashed,    \* the process has faulted
  last,       \* the last native call: op, session, calls, logs, ret
  thr,        \* thr[t]: where thread t is inside its native call (pc), the
              \* locals it carries (n = encoded_bytes, the seed of the bytes
              \* the codec wrote), what its last call returned (ret) and the
              \* packets its caller holds (held)
  scratch,    \* scratch[t]: what output[4000] in the frame of thread t holds,
              \* as the codec answer [n, seed, g] that wrote it (<<>>: no frame)
  jheap       \* jheap[id]: the contents of Java byte array id (<<>>: no such array)

tvars == <<thr, scratch, jheap>>
vars == <<handle, heap, enc_channels, enc_complexity, crashed, last, thr, scratch, jheap>>

\* ----------------------------------------------------------------- logging
LOGE(msg, arg) == [lvl |-> "E", msg |-> msg, arg |-> arg]
LOGI(msg, arg) == [lvl |-> "I", msg |-> msg, arg |-> arg]

\* --------------------------------------------------------- session states
Uninitialized(s) == handle[s] = NULL
Live(s) == IF handle[s] = NULL THEN FALSE ELSE heap[handle[s]] = "live"
Destroyed(s) ==
  IF handle[s] = NULL THEN FALSE ELSE heap[handle[s]] \in {"released", "released_again"}

\* enc points at an allocated, not yet released codec instance
IsLive(enc) == IF enc = NULL THEN FALSE ELSE heap[enc] = "live"

\* the pointers opus_encoder_create can return: NULL, or the next unused one
FreshPtrs == IF \E p \in Ptrs : heap[p] = "free"
             THEN {CHOOSE p \in Ptrs : heap[p] = "free" /\ \A q \in Ptrs : heap[q] = "free" => p <= q}
             ELSE {}

\* one opus_encoder_ctl(enc, REQUEST(value)) call and the status it returned
CtlCall(enc, req, value, status) ==
  [fn |-> "opus_encoder_ctl", enc |-> enc, req |-> req, val |-> value, ret |-> status]

\* nothing allocated, no call made, no thread inside a call
InitNative ==
  /\ heap = [p \in Ptrs |-> "free"]
  /\ enc_channels = [p \in Ptrs |-> 0]
  /\ enc_complexity = [p \in Ptrs |-> <<>>]
  /\ crashed = FALSE
  /\ last = [op |-> "none", s |-> 0, args |-> <<>>, calls |-> <<>>, logs |-> <<>>, ret |-> [kind |-> "none"]]
  /\ thr = [t \in Threads |-> [pc |-> "idle", n |-> 0, seed |-> 0, held |-> <<>>,
                                ret |-> [kind |-> "none"]]]
  /\ scratch = [t \in Threads |-> <<>>]
  /\ jheap = [id \in ArrayIds |-> <<>>]

Init ==
  /\ handle = [s \in Sessions |-> NULL]
  /\ InitNative

\* ------------------------------------------------------------ nativeCreate
CreateFailed_NullOnly(error, encoder) == encoder = NULL

\* line 42: the failure test on what opus_encoder_create answered
CreateFailed(error, encoder) == error # OPUS_OK \/ encoder = NULL

CreateBitrate_Silent(encoder, bitrate, result) ==
  [calls |-> <<CtlCall(encoder, "OPUS_SET_BITRATE", bitrate, result)>>,
   logs  |-> <<LOGI("Bitrate set", bitrate)>>]

CreateBitrate_Retry(encoder, bitrate, result) ==
  [calls |-> IF result # OPUS_OK
             THEN <<CtlCall(encoder, "OPUS_SET_BITRATE", bitrate, result),
                    CtlCall(encoder, "OPUS_SET_BITRATE", bitrate, result)>>
             ELSE <<CtlCall(encoder, "OPUS_SET_BITRATE", bitrate, result)>>,
   logs  |-> IF result # OPUS_OK
             THEN <<LOGE("Failed to set bitrate", result)>>
             ELSE <<LOGI("Bitrate set", bitrate)>>]

\* lines 49-55: the bitrate control call and its log line
CreateBitrate(encoder, bitrate, result) ==
  [calls |-> <<CtlCall(encoder, "OPUS_SET_BITRATE", bitrate, result)>>,
   logs  |-> IF result # OPUS_OK
             THEN <<LOGE("Failed to set bitrate", result)>>
             ELSE <<LOGI("Bitrate set", bitrate)>>]

CreateDred_BitrateMessage(encoder, dred_duration_ms, result) ==
  IF dred_duration_ms > 0
  THEN [calls |-> <<CtlCall(encoder, "OPUS_SET_DRED_DURATION", dred_duration_ms, result)>>,
        logs  |-> IF result # OPUS_OK
                  THEN <<LOGE("Failed to set bitrate", result)>>
                  ELSE <<LOGI("DRED enabled", dred_duration_ms)>>]
  ELSE [calls |-> <<>>, logs |-> <<>>]

CreateDred_NonZero(encoder, dred_duration_ms, result) ==
  IF dred_duration_ms # 0
  THEN [calls |-> <<CtlCall(encoder, "OPUS_SET_DRED_DURATION", dred_duration_ms, result)>>,
        logs  |-> IF result # OPUS_OK
                  THEN <<LOGE("DRED not available or failed to configure", result),
                         LOGE("This may indicate Opus was not compiled with DRED support", 0)>>
                  ELSE <<LOGI("DRED enabled", dred_duration_ms)>>]
  ELSE [calls |-> <<>>, logs |-> <<>>]

\* lines 57-66: the DRED control call, made only for a positive duration
CreateDred(encoder, dred_duration_ms, result) ==
  IF dred_duration_ms > 0
  THEN [calls |-> <<CtlCall(encoder, "OPUS_SET_DRED_DURATION", dred_duration_ms, result)>>,
        logs  |-> IF result # OPUS_OK
                  THEN <<LOGE("DRED not available or failed to configure", result),
                         LOGE("This may indicate Opus was not compiled with DRED support", 0)>>
                  ELSE <<LOGI("DRED enabled", dred_duration_ms)>>]
  ELSE [calls |-> <<>>, logs |-> <<>>]

nativeCreate(s, sample_rate, channels, bitrate, dred_duration_ms) ==
  /\ ~crashed
  /\ Uninitialized(s)
  /\ \E encoder \in {NULL} \cup FreshPtrs, error \in CreateErrors :
       LET args == [sample_rate |-> sample_rate, channels |-> channels,
                    bitrate |-> bitrate, dred_duration_ms |-> dred_duration_ms]
           create == [fn |-> "opus_encoder_create", Fs |-> sample_rate,
                      channels |-> channels, application |-> "OPUS_APPLICATION_VOIP",
                      enc |-> encoder, error |-> error]
       IN /\ heap' = IF encoder # NULL THEN [heap EXCEPT ![encoder] = "live"] ELSE heap
          /\ enc_channels' = IF encoder # NULL
                             THEN [enc_channels EXCEPT ![encoder] = channels]
                             ELSE enc_channels
          /\ enc_complexity' = IF encoder # NULL
                               THEN [enc_complexity EXCEPT ![encoder] = <<>>]
                               ELSE enc_complexity
          /\ IF CreateFailed(error, encoder)
             THEN /\ handle' = [handle EXCEPT ![s] = NULL]
                  /\ last' = [op |-> "create", s |-> s, args |-> args, calls |-> <<create>>,
                              logs |-> <<LOGE("Failed to create Opus encoder", error)>>,
                              ret |-> [kind |-> "handle", val |-> NULL]]
             ELSE \E rb \in BitrateStatuses,
                     rd \in IF dred_duration_ms > 0 THEN DredStatuses ELSE {OPUS_OK} :
                  LET br == CreateBitrate(encoder, bitrate, rb)
                      dr == CreateDred(encoder, dred_duration_ms, rd)
                  IN /\ handle' = [handle EXCEPT ![s] = encoder]
                     /\ last' = [op |-> "create", s |-> s, args |-> args,
                                 calls |-> <<create>> \o br.calls \o dr.calls,
                                 logs |-> <<LOGI("Opus encoder created", sample_rate)>>
                                          \o br.logs \o dr.logs,
                                 ret |-> [kind |-> "handle", val |-> encoder]]
  /\ UNCHANGED <<crashed, tvars>>

\* ----------------------------------------------------------- nativeDestroy
DestroyReleases_Never(encoder) == FALSE

\* line 161: release only a non-null pointer
DestroyReleases(encoder) == encoder # NULL

nativeDestroy(s) ==
  LET encoder == handle[s] IN
  /\ ~crashed
  /\ IF DestroyReleases(encoder)
     THEN /\ heap' = [heap EXCEPT ![encoder] = IF heap[encoder] = "live"
                                                THEN "released"
                                                ELSE "released_again"]
          /\ enc_channels' = [enc_channels EXCEPT ![encoder] = 0]
          /\ enc_complexity' = [enc_complexity EXCEPT ![encoder] = <<>>]
          \* releasing an already released instance is a double free:
          \* the process faults, or carries on
          /\ IF heap[encoder] = "live"
             THEN crashed' = FALSE
             ELSE crashed' \in BOOLEAN
          /\ last' = [op |-> "destroy", s |-> s, args |-> <<>>,
                      calls |-> <<[fn |-> "opus_encoder_destroy", enc |-> encoder]>>,
                      logs |-> IF crashed' THEN <<>> ELSE <<LOGI("Opus encoder destroyed", 0)>>,
                      ret |-> [kind |-> IF crashed' THEN "fault" ELSE "void"]]
     ELSE /\ last' = [op |-> "destroy", s |-> s, args |-> <<>>, calls |-> <<>>, logs |-> <<>>,
                      ret |-> [kind |-> "void"]]
          /\ UNCHANGED <<heap, enc_channels, enc_complexity, crashed>>
  \* the pointer was passed by value: the caller's jlong is what it was
  /\ UNCHANGED <<handle, tvars>>

\* ------------------------------------------------------------ nativeEncode
\* what the codec leaves in output[4000] when it reports n bytes: n packet
\* bytes, the rest of the stack array as it was (indeterminate, g)
CodecByte(seed, i) == (seed + i) % 256
CodecOutput(n, seed, g) ==
  [i \in 1..OutputSize |-> IF i <= n THEN CodecByte(seed, i) ELSE g]

\* line 141: reinterpret_cast<jbyte*>: an unsigned char read as a signed byte
ToJByte(b) == IF b >= 128 THEN b - 256 ELSE b

SetByteArrayRegion_OneShort(len, output) ==
  SubSeq([i \in 1..(len - 1) |-> ToJByte(output[i])], 1, len - 1)

\* lines 137-142: SetByteArrayRegion(result, 0, encoded_bytes, output)
SetByteArrayRegion(len, output) == SubSeq([i \in 1..len |-> ToJByte(output[i])], 1, len)

\* lines 118-144: what nativeEncode does with the codec's answer
EncodeResult(encoded_bytes, output, allocOK) ==
  IF encoded_bytes < 0
  THEN [calls |-> <<>>, logs |-> <<LOGE("Encoding failed", encoded_bytes)>>,
        ret |-> [kind |-> "null"]]
  ELSE IF encoded_bytes = 0
  THEN [calls |-> <<>>, logs |-> <<LOGE("Encoded 0 bytes (DTX or silence)", 0)>>,
        ret |-> [kind |-> "null"]]
  ELSE IF ~allocOK
  THEN [calls |-> <<[fn |-> "NewByteArray", len |-> encoded_bytes, ok |-> FALSE]>>,
        logs |-> <<LOGE("Failed to allocate byte array", 0)>>,
        ret |-> [kind |-> "null"]]
  ELSE [calls |-> <<[fn |-> "NewByteArray", len |-> encoded_bytes, ok |-> TRUE],
                    [fn |-> "SetByteArrayRegion", start |-> 0, len |-> encoded_bytes]>>,
        logs |-> <<>>,
        ret |-> [kind |-> "bytes", bytes |-> SetByteArrayRegion(encoded_bytes, output)]]

\* line 112: the capacity handed to opus_encode
MaxDataBytes == OutputSize

\* the answers of opus_encode(encoder, pcm, frame_size, output, max_data_bytes):
\* an error code, zero, or a packet of at most max_data_bytes bytes
CodecAnswers(max_data_bytes) ==
  [n : EncodeErrors \cup {0}, seed : {0}, g : {0}]
  \cup [n : {k \in PacketLengths : k < OutputSize /\ k <= max_data_bytes}, seed : Seeds, g : {0, 170}]
  \cup [n : {k \in PacketLengths : k >= OutputSize /\ k <= max_data_bytes}, seed : Seeds, g : {0}]

\* nativeEncode's result for every answer of the codec and of NewByteArray
\* (tabulated once: the result depends on nothing else)
EncodeTable ==
  {[a |-> a, allocOK |-> allocOK,
    r |-> EncodeResult(a.n, CodecOutput(a.n, a.seed, a.g), allocOK)] :
     a \in CodecAnswers(MaxDataBytes), allocOK \in BOOLEAN}

ReleasePcm_Missing == <<>>

\* line 116: the PCM elements are given back once, right after opus_encode,
\* with JNI_ABORT (free the buffer without copying it back)
ReleasePcm == <<[fn |-> "ReleaseShortArrayElements", mode |-> "JNI_ABORT"]>>

EncodeRejects_Inverted(encoder) == encoder # NULL

\* lines 107-113: opus_encode has defined behaviour on a live instance
\* given at least frame_size samples for each of its channels
EncodeDefined(encoder, pcm_len, frame_size) ==
  IF IsLive(encoder) THEN pcm_len >= frame_size * enc_channels[encoder] ELSE FALSE

\* line 91: the only test nativeEncode makes on the pointer
EncodeRejects(encoder) == encoder = NULL

nativeEncode(s, pcm_len, frame_size) ==
  LET encoder == handle[s]
      args == [pcm_len |-> pcm_len, frame_size |-> frame_size]
  IN
  /\ ~crashed
  /\ IF EncodeRejects(encoder)
     THEN /\ last' = [op |-> "encode", s |-> s, args |-> args, calls |-> <<>>,
                      logs |-> <<LOGE("Encoder pointer is null", 0)>>,
                      ret |-> [kind |-> "null"]]
          /\ UNCHANGED crashed
     ELSE \E pcmOK \in BOOLEAN :
          LET get == [fn |-> "GetShortArrayElements", len |-> pcm_len, ok |-> pcmOK] IN
          IF ~pcmOK
          THEN /\ last' = [op |-> "encode", s |-> s, args |-> args, calls |-> <<get>>,
                           logs |-> <<LOGE("Failed to get PCM data", 0)>>,
                           ret |-> [kind |-> "null"]]
               /\ UNCHANGED crashed
          ELSE \* lines 107-113: the codec reads frame_size samples per channel
               \* from pcm.  On a released instance the call is a use after
               \* free, on a shorter array a read past its end: the process
               \* faults, or the call answers anything
               \/ /\ ~EncodeDefined(encoder, pcm_len, frame_size)
                  /\ crashed' = TRUE
                  /\ last' = [op |-> "encode", s |-> s, args |-> args,
                              calls |-> <<get, [fn |-> "opus_encode", enc |-> encoder,
                                                frame_size |-> frame_size, pcm_len |-> pcm_len,
                                                max_data_bytes |-> MaxDataBytes]>>,
                              logs |-> <<>>, ret |-> [kind |-> "fault"]]
               \/ \E row \in EncodeTable :
                  LET a == row.a
                      r == row.r
                  IN
                  /\ a.n <= 0 => row.allocOK
                  /\ crashed' = FALSE
                  /\ last' = [op |-> "encode", s |-> s, args |-> args,
                              calls |-> <<get, [fn |-> "opus_encode", enc |-> encoder,
                                                frame_size |-> frame_size, pcm_len |-> pcm_len,
                                                max_data_bytes |-> MaxDataBytes,
                                                ret |-> a.n, seed |-> a.seed]>>
                                        \o ReleasePcm \o r.calls,
                              logs |-> r.logs, ret |-> r.ret]
  \* encode assigns nothing the session consists of
  /\ UNCHANGED <<handle, heap, enc_channels, enc_complexity, tvars>>

\* --------------------------------------------------- Codec Control Surface
\* ios/opus_ctl_helpers.c: each helper is one opus_encoder_ctl call whose
\* status is the helper's return value
opus_encoder_ctl_set_bitrate(enc, bitrate, status) ==
  [calls |-> <<CtlCall(enc, "OPUS_SET_BITRATE", bitrate, status)>>, ret |-> status]
opus_encoder_ctl_set_dred_duration(enc, duration_ms, status) ==
  [calls |-> <<CtlCall(enc, "OPUS_SET_DRED_DURATION", duration_ms, status)>>, ret |-> status]
opus_encoder_ctl_set_vbr_AsBitrate(enc, vbr, status) ==
  [calls |-> <<CtlCall(enc, "OPUS_SET_BITRATE", vbr, status)>>, ret |-> status]
opus_encoder_ctl_set_vbr(enc, vbr, status) ==
  [calls |-> <<CtlCall(enc, "OPUS_SET_VBR", vbr, status)>>, ret |-> status]
opus_encoder_ctl_set_complexity_AsDtx(enc, complexity, status) ==
  [calls |-> <<CtlCall(enc, "OPUS_SET_DTX", complexity, status)>>, ret |-> status]
opus_encoder_ctl_set_complexity(enc, complexity, status) ==
  [calls |-> <<CtlCall(enc, "OPUS_SET_COMPLEXITY", complexity, status)>>, ret |-> status]
opus_encoder_ctl_set_inband_fec(enc, fec, status) ==
  [calls |-> <<CtlCall(enc, "OPUS_SET_INBAND_FEC", fec, status)>>, ret |-> status]
opus_encoder_ctl_set_dtx(enc, dtx, status) ==
  [calls |-> <<CtlCall(enc, "OPUS_SET_DTX", dtx, status)>>, ret |-> status]

\* opus_ctl_helpers.h lines 37-43: the codec takes a complexity of 0 to 10
\* and answers OPUS_OK on success, an error code (OPUS_BAD_ARG) otherwise;
\* on a pointer that is not a live instance it answers anything
ComplexityStatuses(enc, complexity) ==
  IF IsLive(enc)
  THEN (IF complexity \in 0..10 THEN {OPUS_OK} ELSE {-1})
  ELSE CtlStatuses

\* what an answered control call leaves in the codec instance: an accepted
\* complexity is stored, replacing the one before
CodecApply(call) ==
  IF IsLive(call.enc) /\ call.req = "OPUS_SET_COMPLEXITY" /\ call.ret = OPUS_OK
  THEN [enc_complexity EXCEPT ![call.enc] = <<call.val>>]
  ELSE enc_complexity

\* a helper is called with the session's pointer; the helpers test nothing,
\* so on a null or released pointer the codec dereferences it: the process
\* faults, or the call answers some status
Configure(s, op, v, r) ==
  /\ ~crashed
  /\ \/ /\ crashed' = FALSE
        /\ enc_complexity' = CodecApply(r.calls[1])
        /\ last' = [op |-> op, s |-> s, args |-> [value |-> v], calls |-> r.calls, logs |-> <<>>,
                    ret |-> [kind |-> "status", val |-> r.ret]]
     \/ /\ ~IsLive(handle[s])
        /\ crashed' = TRUE
        /\ UNCHANGED enc_complexity
        /\ last' = [op |-> op, s |-> s, args |-> [value |-> v], calls |-> r.calls, logs |-> <<>>,
                    ret |-> [kind |-> "fault"]]
  /\ UNCHANGED <<handle, heap, enc_channels, tvars>>

setBitrate(s, v) ==
  \E st \in CtlStatuses : Configure(s, "setBitrate", v, opus_encoder_ctl_set_bitrate(handle[s], v, st))
setDredDuration(s, v) ==
  \E st \in CtlStatuses : Configure(s, "setDredDuration", v, opus_encoder_ctl_set_dred_duration(handle[s], v, st))
setVbr(s, v) ==
  \E st \in CtlStatuses : Configure(s, "setVbr", v, opus_encoder_ctl_set_vbr(handle[s], v, st))
setComplexity(s, v) ==
  \E st \in ComplexityStatuses(handle[s], v) : Configure(s, "setComplexity", v, opus_encoder_ctl_set_complexity(handle[s], v, st))
setInbandFec(s, v) ==
  \E st \in CtlStatuses : Configure(s, "setInbandFec", v, opus_encoder_ctl_set_inband_fec(handle[s], v, st))
setDtx(s, v) ==
  \E st \in CtlStatuses : Configure(s, "setDtx", v, opus_encoder_ctl_set_dtx(handle[s], v, st))

Next ==
  \/ \E s \in Sessions, a \in CreateInputs :
       nativeCreate(s, a.sample_rate, a.channels, a.bitrate, a.dred_duration_ms)
  \/ \E s \in Sessions, pcm_len \in PcmLengths, frame_size \in FrameSizes :
       nativeEncode(s, pcm_len, frame_size)
  \/ \E s \in Sessions : nativeDestroy(s)
  \/ \E s \in Sessions, v \in CtlValues : setBitrate(s, v)
  \/ \E s \in Sessions, v \in CtlValues : setDredDuration(s, v)
  \/ \E s \in Sessions, v \in CtlValues : setVbr(s, v)
  \/ \E s \in Sessions, v \in CtlValues : setComplexity(s, v)
  \/ \E s \in Sessions, v \in CtlValues : setInbandFec(s, v)
  \/ \E s \in Sessions, v \in CtlValues : setDtx(s, v)

Spec == Init /\ [][Next]_vars

\* --------------------------------------------- two threads, one session each
\* The same entry points, run by two threads at once.  nativeEncode is cut
\* where the scheduler can cut it: after opus_encode has filled output[],
\* before the bytes are copied out.  Each thread uses its session as the
\* session contract says: create, encode while Live, destroy once.
ScratchOf_Static(t) == 1

\* line 104: output[] is an automatic array: every call has its own
ScratchOf(t) == t

FreshArrays_Reused == {1}

\* line 130: NewByteArray hands out an array no one holds yet, or none
FreshArrays == IF \E id \in ArrayIds : jheap[id] = <<>>
               THEN {CHOOSE id \in ArrayIds :
                       jheap[id] = <<>> /\ \A j \in ArrayIds : jheap[j] = <<>> => id <= j}
               ELSE {}

\* the codec answers the threads are run with: an error, zero, and two
\* packets that differ in length and in every byte
ThreadAnswers ==
  [n : {-1, 0}, seed : {0}, g : {0}]
  \cup {[n |-> 1, seed |-> 7, g |-> 0], [n |-> 3, seed |-> 250, g |-> 0]}

\* the bytes of an output[] that answer a was written into
OutputBytes(a) == CodecOutput(a.n, a.seed, a.g)

\* lines 23-70 run by thread t (the control calls change nothing here)
Thread_nativeCreate(t, channels) ==
  /\ thr[t].pc = "idle"
  /\ Uninitialized(t)
  /\ \E encoder \in {NULL} \cup FreshPtrs, error \in CreateErrors :
       /\ heap' = IF encoder # NULL THEN [heap EXCEPT ![encoder] = "live"] ELSE heap
       /\ enc_channels' = IF encoder # NULL
                          THEN [enc_channels EXCEPT ![encoder] = channels]
                          ELSE enc_channels
       /\ handle' = [handle EXCEPT ![t] = IF CreateFailed(error, encoder) THEN NULL ELSE encoder]
       /\ thr' = [thr EXCEPT ![t].ret = [kind |-> "handle", val |-> handle'[t]]]
  /\ UNCHANGED <<enc_complexity, crashed, last, scratch, jheap>>

\* lines 88-113 run by thread t: the pointer and PCM tests, then opus_encode
\* writes the packet into this call's output[]
Thread_opus_encode(t) ==
  /\ thr[t].pc = "idle"
  /\ Live(t)
  /\ ~EncodeRejects(handle[t])
  /\ \E pcmOK \in BOOLEAN :
       IF ~pcmOK
       THEN /\ thr' = [thr EXCEPT ![t].ret = [kind |-> "null"]]
            /\ UNCHANGED scratch
       ELSE \E a \in ThreadAnswers :
            /\ scratch' = [scratch EXCEPT ![ScratchOf(t)] = a]
            /\ thr' = [thr EXCEPT ![t].pc = "encoding", ![t].n = a.n, ![t].seed = a.seed]
  /\ UNCHANGED <<handle, heap, enc_channels, enc_complexity, crashed, last, jheap>>

\* lines 116-144 run by thread t: the tests on encoded_bytes, NewByteArray,
\* SetByteArrayRegion out of this call's output[], return (which ends the
\* lifetime of output[] and of the locals)
Thread_copyOut(t) ==
  /\ thr[t].pc = "encoding"
  /\ \E allocOK \in (IF FreshArrays = {} THEN {FALSE} ELSE BOOLEAN) :
       LET r == EncodeResult(thr[t].n, OutputBytes(scratch[ScratchOf(t)]), allocOK) IN
       IF r.ret.kind = "bytes"
       THEN \E id \in FreshArrays :
            /\ jheap' = [jheap EXCEPT ![id] = r.ret.bytes]
            /\ thr' = [thr EXCEPT ![t].pc = "idle", ![t].n = 0, ![t].seed = 0,
                                  ![t].ret = [kind |-> "bytes"],
                                  ![t].held = Append(@, [id |-> id, bytes |-> r.ret.bytes])]
       ELSE /\ thr' = [thr EXCEPT ![t].pc = "idle", ![t].n = 0, ![t].seed = 0,
                                  ![t].ret = r.ret]
            /\ UNCHANGED jheap
  /\ scratch' = [scratch EXCEPT ![ScratchOf(t)] = <<>>]
  /\ UNCHANGED <<handle, heap, enc_channels, enc_complexity, crashed, last>>

\* lines 154-165 run by thread t
Thread_nativeDestroy(t) ==
  /\ thr[t].pc = "idle"
  /\ Live(t)
  /\ DestroyReleases(handle[t])
  /\ heap' = [heap EXCEPT ![handle[t]] = "released"]
  /\ enc_channels' = [enc_channels EXCEPT ![handle[t]] = 0]
  /\ thr' = [thr EXCEPT ![t].pc = "done", ![t].ret = [kind |-> "void"]]
  /\ UNCHANGED <<handle, enc_complexity, crashed, last, scratch, jheap>>

InitThreads ==
  /\ handle = [t \in Threads |-> NULL]
  /\ InitNative

NextThreads ==
  \/ \E t \in Threads : Thread_nativeCreate(t, 1)
  \/ \E t \in Threads : Thread_opus_encode(t)
  \/ \E t \in Threads : Thread_copyOut(t)
  \/ \E t \in Threads : Thread_nativeDestroy(t)

SpecThreads == InitThreads /\ [][NextThreads]_vars

\* ======================================================================
\* Claims
\* ======================================================================
\* the codec and JNI calls of the last operation that went to function f
CallsTo(f) == {i \in 1..Len(last.calls) : last.calls[i].fn = f}

\* the last operation was an encode on which opus_encode returned n with P(n)
EncodeAnswered(l) ==
  /\ l.op = "encode"
  /\ l.ret.kind # "fault"
  /\ Len(l.calls) >= 2
  /\ l.calls[2].fn = "opus_encode"

\* C1: over any sequence of create, encode and destroy calls the codec
\* instance of a session is released at most once; a second destroy on a
\* destroyed session calls no opus_encoder_destroy.
C1_ReleasedAtMostOnce == \A p \in Ptrs : heap[p] # "released_again"

\* C2: an encode on a destroyed session returns the invalid-session outcome
\* (null) and makes no opus_encode call on the released instance.
C2_EncodeAfterDestroyRejected ==
  (last.op = "encode" /\ Destroyed(last.s)) =>
     /\ last.ret.kind = "null"
     /\ CallsTo("opus_encode") = {}

\* C3: on a Live session, the result returned when the codec reports zero
\* bytes differs from the result returned when it reports a negative status.
ZeroCase == EncodeAnswered(last) /\ Live(last.s) /\ last.calls[2].ret = 0
NegCase == EncodeAnswered(last) /\ Live(last.s) /\ last.calls[2].ret < 0
C3_ZeroDistinctFromFailure ==
  [][(ZeroCase /\ NegCase') => last.ret # last'.ret]_vars

\* C4: when opus_encoder_create answers with a non-OK error or a null
\* instance, create returns the null handle, the session stays
\* Uninitialized, and no opus_encoder_ctl call (bitrate, DRED) is made.
C4_CreateFailureNoConfig ==
  (last.op = "create"
     /\ (last.calls[1].error # OPUS_OK \/ last.calls[1].enc = NULL)) =>
     /\ last.ret.val = NULL
     /\ Uninitialized(last.s)
     /\ CallsTo("opus_encoder_ctl") = {}
     /\ Len(last.calls) = 1

C4_Witness ==
  /\ last.op = "create"
  /\ last.calls[1].error # OPUS_OK
  /\ last.ret.val = NULL

\* the last operation was a create on which opus_encoder_create succeeded
CreatedOK ==
  /\ last.op = "create"
  /\ last.calls[1].error = OPUS_OK
  /\ last.calls[1].enc # NULL

LogHas(m) == \E i \in 1..Len(last.logs) : last.logs[i].msg = m

\* an encode that passed the invalid-session test and went on to the PCM array
EncodeAccepted(l) ==
  /\ l.op = "encode"
  /\ Len(l.calls) >= 1
  /\ l.calls[1].fn = "GetShortArrayElements"

\* C5 (as claimed): for any bitrate <= 0 passed to create, with instance
\* creation succeeding, the bitrate configuration attempt reports a
\* configuration failure and the session still reaches Live.
C5_NonPositiveBitrateFails ==
  (CreatedOK /\ last.args.bitrate <= 0) =>
     /\ last.calls[2].ret # OPUS_OK
     /\ LogHas("Failed to set bitrate")
     /\ Live(last.s)

\* C5 (amended): create passes the bitrate to the codec untested; the
\* failure is reported exactly when the codec's bitrate control call
\* returns a non-OK status, and whatever that status is the session is
\* Live, holds the returned handle, and a following encode is accepted.
C5_CreatedState ==
  CreatedOK =>
     /\ Len(last.calls) >= 2
     /\ last.calls[2].fn = "opus_encoder_ctl"
     /\ last.calls[2].req = "OPUS_SET_BITRATE"
     /\ last.calls[2].val = last.args.bitrate
     /\ (last.calls[2].ret # OPUS_OK <=> LogHas("Failed to set bitrate"))
     /\ Live(last.s)
     /\ last.ret.val = handle[last.s]
\* C5 (amended), as a property: the state above always holds, and an encode
\* that follows a successful create on the same session is accepted.
C5_BitrateFailureNonFatal ==
  /\ []C5_CreatedState
  /\ [][(CreatedOK /\ last'.op = "encode" /\ last'.s = last.s)
          => EncodeAccepted(last')]_vars

C5_Witness ==
  /\ CreatedOK
  /\ last.args.bitrate <= 0
  /\ last.calls[2].ret # OPUS_OK
  /\ Live(last.s)

\* C6: when dredDurationMs > 0 and the DRED control call fails, create does
\* not roll back: the session is Live with the returned handle, and the
\* failure is logged with the DRED message, which is not the bitrate
\* message (that one appears exactly when the bitrate call failed).
C6_DredFailureNonFatal ==
  (CreatedOK /\ last.args.dred_duration_ms > 0
     /\ Len(last.calls) >= 3 /\ last.calls[3].ret # OPUS_OK) =>
     /\ last.calls[3].req = "OPUS_SET_DRED_DURATION"
     /\ Live(last.s)
     /\ last.ret.val # NULL
     /\ last.ret.val = handle[last.s]
     /\ LogHas("DRED not available or failed to configure")
     /\ (LogHas("Failed to set bitrate") <=> last.calls[2].ret # OPUS_OK)

C6_Witness ==
  /\ CreatedOK
  /\ last.args.dred_duration_ms = 100
  /\ Len(last.calls) = 3
  /\ last.calls[3].ret = -5
  /\ last.calls[2].ret = OPUS_OK
  /\ Live(last.s)

\* the last operation was an encode on a Live session on which the codec
\* reported a positive byte count
PosCase == EncodeAnswered(last) /\ Live(last.s) /\ last.calls[2].ret > 0

\* the returned packet has exactly the n bytes the codec wrote, 1 <= n <= 4000
\* (a jbyte b stands for the byte b mod 256)
PacketIsCodecPrefix ==
  LET n == last.calls[2].ret
      seed == last.calls[2].seed
  IN /\ last.ret.kind = "bytes"
     /\ Len(last.ret.bytes) = n
     /\ 1 <= n /\ n <= 4000
     /\ \A i \in 1..n : last.ret.bytes[i] % 256 = CodecByte(seed, i)

\* C7 (as claimed): when opus_encode returns a positive count n on a Live
\* session, encode returns a packet of exactly n bytes, 1 <= n <= 4000,
\* equal to the first n bytes of the scratch buffer.
C7_PositiveCountGivesPacket == PosCase => PacketIsCodecPrefix

\* C7 (amended): ... provided NewByteArray(n) succeeds; when it fails
\* encode returns null although the codec produced n bytes.
C7_PacketUnlessAllocFails ==
  PosCase =>
     /\ Len(last.calls) >= 4
     /\ last.calls[4].fn = "NewByteArray"
     /\ last.calls[4].len = last.calls[2].ret
     /\ IF last.calls[4].ok
        THEN PacketIsCodecPrefix
        ELSE last.ret.kind = "null" /\ last.calls[2].ret <= 4000

C7_Witness ==
  /\ PosCase
  /\ last.calls[2].ret = 4000
  /\ last.ret.kind = "bytes"
  /\ last.ret.bytes[1] < 0

\* C8: encode never changes the session: an encode step on a Live session
\* leaves handle and instance as they were; given a PCM array
\* of at least frame_size samples per channel it returns a packet or null
\* and the session is still Live; and an encode that follows an encode
\* which returned on a Live session is accepted.
C8_EncodeKeepsSession ==
  [][/\ (last'.op = "encode" /\ Live(last'.s)) =>
          /\ handle' = handle
          /\ heap' = heap
          /\ enc_channels' = enc_channels
          /\ Live(last.s)'
          /\ (last'.args.pcm_len >= last'.args.frame_size * enc_channels[handle[last'.s]]) =>
                /\ ~crashed'
                /\ last'.ret.kind \in {"null", "bytes"}
     /\ (last.op = "encode" /\ Live(last.s) /\ ~crashed
          /\ last'.op = "encode" /\ last'.s = last.s) => EncodeAccepted(last')
    ]_vars

C8_Witness ==
  /\ EncodeAnswered(last)
  /\ Live(last.s)
  /\ last.calls[2].ret < 0
  /\ last.ret.kind = "null"

\* the six configure operations
ConfigureOps ==
  {"setBitrate", "setDredDuration", "setVbr", "setComplexity", "setInbandFec", "setDtx"}

\* C9: encode, each configure operation and destroy, called with a null
\* handle, make no codec call on the handle and do not fault.
C9_NullHandleNoCodecCall ==
  (last.op \in {"encode", "destroy"} \cup ConfigureOps /\ Uninitialized(last.s)) =>
     /\ CallsTo("opus_encode") = {}
     /\ CallsTo("opus_encoder_ctl") = {}
     /\ CallsTo("opus_encoder_destroy") = {}
     /\ last.ret.kind # "fault"

\* the control request of each configure operation
RequestOf ==
  [setBitrate |-> "OPUS_SET_BITRATE", setDredDuration |-> "OPUS_SET_DRED_DURATION",
   setVbr |-> "OPUS_SET_VBR", setComplexity |-> "OPUS_SET_COMPLEXITY",
   setInbandFec |-> "OPUS_SET_INBAND_FEC", setDtx |-> "OPUS_SET_DTX"]

\* C10: each configure operation makes exactly one opus_encoder_ctl call,
\* on the caller's pointer, with the request of that option and the
\* caller's value, and what it returns is the status of that call.
C10_ControlPassThrough ==
  last.op \in ConfigureOps =>
     /\ Len(last.calls) = 1
     /\ last.calls[1].fn = "opus_encoder_ctl"
     /\ last.calls[1].enc = handle[last.s]
     /\ last.calls[1].req = RequestOf[last.op]
     /\ last.calls[1].val = last.args.value
     /\ last.ret.kind = "status" => last.ret.val = last.calls[1].ret

C10_Witness ==
  /\ last.op = "setVbr"
  /\ Live(last.s)
  /\ last.args.value = -1
  /\ last.ret.kind = "status"
  /\ last.ret.val = -5

\* C11: for every supported (sampleRate, channels) pair, a destroy that
\* directly follows a successful create on the same session makes exactly
\* one opus_encoder_destroy call, on the instance that create returned, and
\* that instance goes from allocated to released once: it is not left
\* allocated and not released a second time.
C11_CreateThenDestroyReleases ==
  [][(CreatedOK /\ last'.op = "destroy" /\ last'.s = last.s) =>
        /\ last.args.sample_rate \in SampleRates /\ last.args.channels \in Channels
        /\ heap[last.ret.val] = "live"
        /\ last'.calls = <<[fn |-> "opus_encoder_destroy", enc |-> last.ret.val]>>
        /\ heap'[last.ret.val] = "released"
        /\ \A p \in Ptrs : p # last.ret.val => heap'[p] = heap[p]
        /\ ~crashed'
        /\ last'.ret.kind = "void"]_vars

C11_Witness ==
  /\ last.op = "destroy"
  /\ Destroyed(last.s)
  /\ heap[handle[last.s]] = "released"
  /\ CallsTo("opus_encoder_destroy") # {}
  /\ last.ret.kind = "void"

\* the DRED duration of the last create lies outside the documented 0..100
DredOutOfRange == CreatedOK /\ last.args.dred_duration_ms \notin 0..100

\* C12 (as claimed): for every dredDurationMs outside [0,100] passed to
\* create, a configuration failure is recorded (the DRED failure message)
\* and the session is still created.
C12_OutOfRangeDredReported ==
  DredOutOfRange =>
     /\ LogHas("DRED not available or failed to configure")
     /\ Live(last.s)

\* C12 (amended): create does not test the range.  A duration above 100 is
\* passed unchanged to the codec's DRED control and a failure is recorded
\* exactly when that call returns a non-OK status; a negative duration is
\* treated as "DRED off": no DRED control call and no failure recorded.  In
\* both cases the session is created (Live, with the returned handle).
C12_OutOfRangeDredPassedOn ==
  DredOutOfRange =>
     /\ Live(last.s)
     /\ last.ret.val # NULL
     /\ last.ret.val = handle[last.s]
     /\ IF last.args.dred_duration_ms > 100
        THEN /\ Len(last.calls) = 3
             /\ last.calls[3].req = "OPUS_SET_DRED_DURATION"
             /\ last.calls[3].val = last.args.dred_duration_ms
             /\ (last.calls[3].ret # OPUS_OK
                   <=> LogHas("DRED not available or failed to configure"))
             /\ (last.calls[3].ret = OPUS_OK <=> LogHas("DRED enabled"))
        ELSE /\ Len(last.calls) = 2
             /\ ~LogHas("DRED not available or failed to configure")
             /\ ~LogHas("DRED enabled")

C12_Witness ==
  /\ DredOutOfRange
  /\ last.args.dred_duration_ms < 0
  /\ Len(last.calls) = 2
  /\ Live(last.s)

\* the calls of the last operation that were opus_encoder_ctl with request r
CtlCallsFor(r) ==
  {i \in CallsTo("opus_encoder_ctl") : last.calls[i].req = r}

\* C15: in every create call the codec calls occur in this order: first one
\* opus_encoder_create with the VOIP application; then, only if it
\* succeeded, exactly one bitrate control call; then exactly one DRED
\* duration control call if dredDurationMs > 0 and none otherwise.  The DRED
\* call is made whether or not the bitrate call succeeded.
C15_CreateCallOrder ==
  last.op = "create" =>
     /\ CallsTo("opus_encoder_create") = {1}
     /\ last.calls[1].application = "OPUS_APPLICATION_VOIP"
     /\ last.calls[1].Fs = last.args.sample_rate
     /\ last.calls[1].channels = last.args.channels
     /\ IF ~CreatedOK
        THEN Len(last.calls) = 1
        ELSE /\ CtlCallsFor("OPUS_SET_BITRATE") = {2}
             /\ last.calls[2].enc = last.calls[1].enc
             /\ last.calls[2].val = last.args.bitrate
             /\ IF last.args.dred_duration_ms > 0
                THEN /\ Len(last.calls) = 3
                     /\ CtlCallsFor("OPUS_SET_DRED_DURATION") = {3}
                     /\ last.calls[3].enc = last.calls[1].enc
                     /\ last.calls[3].val = last.args.dred_duration_ms
                ELSE /\ Len(last.calls) = 2
                     /\ CtlCallsFor("OPUS_SET_DRED_DURATION") = {}

C15_Witness ==
  /\ CreatedOK
  /\ last.args.dred_duration_ms > 0
  /\ last.calls[2].req = "OPUS_SET_BITRATE"
  /\ last.calls[2].ret # OPUS_OK
  /\ Len(last.calls) = 3
  /\ last.calls[3].req = "OPUS_SET_DRED_DURATION"

\* C17: an encode that returns acquires the caller's PCM array at most once
\* (GetShortArrayElements) and gives every successful acquisition back
\* exactly once (ReleaseShortArrayElements), after opus_encode and before
\* anything else, whatever opus_encode and NewByteArray answered; the
\* release is JNI_ABORT, which copies nothing back, and the only call made
\* while the elements are held is opus_encode, which reads them.
C17_PcmReleasedOnce ==
  (last.op = "encode" /\ last.ret.kind # "fault") =>
     /\ Cardinality(CallsTo("GetShortArrayElements")) <= 1
     /\ IF CallsTo("GetShortArrayElements") # {} /\ last.calls[1].ok
        THEN /\ CallsTo("GetShortArrayElements") = {1}
             /\ CallsTo("opus_encode") = {2}
             /\ CallsTo("ReleaseShortArrayElements") = {3}
             /\ last.calls[3].mode = "JNI_ABORT"
             /\ \A i \in 4..Len(last.calls) :
                   last.calls[i].fn \in {"NewByteArray", "SetByteArrayRegion"}
        ELSE CallsTo("ReleaseShortArrayElements") = {}

C17_Witness ==
  /\ EncodeAnswered(last)
  /\ last.calls[2].ret > 0
  /\ CallsTo("ReleaseShortArrayElements") = {3}
  /\ Len(last.calls) = 4
  /\ last.calls[4].fn = "NewByteArray"
  /\ ~last.calls[4].ok
  /\ last.ret.kind = "null"

\* C18: encode calls opus_encode only when the PCM array holds at least
\* frameSize x channelCount samples, so the codec never reads past the end
\* of the caller's array.
C18_EncodeOnlyWithFullFrame ==
  (last.op = "encode" /\ Live(last.s) /\ CallsTo("opus_encode") # {}) =>
     last.args.pcm_len >= last.args.frame_size * enc_channels[handle[last.s]]

\* C19: whenever create returns the null handle no codec instance it
\* obtained remains allocated: an instance that opus_encoder_create
\* returned together with a non-OK error is released.
C19_FailedCreateLeavesNothing ==
  (last.op = "create" /\ last.ret.val = NULL /\ last.calls[1].enc # NULL) =>
     heap[last.calls[1].enc] # "live"

OwnOutput(t) ==
  (thr[t].pc = "encoding" /\ thr[t].n > 0) =>
     /\ scratch[t] # <<>>
     /\ DOMAIN OutputBytes(scratch[t]) = 1..OutputSize
     /\ \A i \in 1..thr[t].n : OutputBytes(scratch[t])[i] = CodecByte(thr[t].seed, i)

\* the return of thread t's encode is decided by its own codec answer: null
\* for n <= 0; for n > 0 null (no array) or one new packet of exactly the n
\* bytes its own codec call wrote
OwnReturn(t) ==
  (thr[t].pc = "encoding" /\ thr'[t].pc = "idle") =>
     IF thr[t].n <= 0 \/ thr'[t].ret.kind = "null"
     THEN thr'[t].ret.kind = "null" /\ thr'[t].held = thr[t].held
     ELSE /\ thr'[t].ret.kind = "bytes"
          /\ Len(thr'[t].held) = Len(thr[t].held) + 1
          /\ SubSeq(thr'[t].held, 1, Len(thr[t].held)) = thr[t].held
          /\ LET packet == thr'[t].held[Len(thr'[t].held)].bytes
             IN /\ Len(packet) = thr[t].n
                /\ \A i \in 1..thr[t].n : packet[i] % 256 = CodecByte(thr[t].seed, i)

\* a step in which another thread moved leaves thread u's locals, handle,
\* codec instance, output[] and held packets as they were
Undisturbed(u) ==
  (\E t \in Threads \ {u} : thr'[t] # thr[t]) =>
     /\ thr'[u] = thr[u]
     /\ handle'[u] = handle[u]
     /\ scratch'[u] = scratch[u]
     /\ handle[u] # NULL =>
           /\ heap'[handle[u]] = heap[handle[u]]
           /\ enc_channels'[handle[u]] = enc_channels[handle[u]]
     /\ \A k \in 1..Len(thr[u].held) :
           jheap'[thr[u].held[k].id] = jheap[thr[u].held[k].id]

\* C13: two sessions share no mutable state: under every interleaving of
\* the create, encode and destroy calls of two threads, each on its own
\* session, a step of one thread changes nothing of the other's session,
\* every call returns what its own codec answers determine, and a packet
\* returned to one session holds only the bytes its own encode produced.
C13_SessionsIsolated ==
  /\ [](\A t \in Threads : OwnOutput(t))
  /\ [][\A u \in Threads : Undisturbed(u) /\ OwnReturn(u)]_vars

C13_Witness ==
  /\ thr[1].pc = "encoding" /\ thr[1].n > 0
  /\ thr[2].pc = "encoding" /\ thr[2].n > 0
  /\ thr[1].seed # thr[2].seed
  /\ thr[1].held # <<>>

\* C16: a packet returned by encode is a copy of its own: after any later
\* encode call (of the same session or another) every packet returned
\* before still has the contents and the length it was returned with, and
\* no two returned packets are the same array.
C16_ReturnedPacketsKeep ==
  /\ \A t \in Threads : \A k \in 1..Len(thr[t].held) :
        /\ Len(jheap[thr[t].held[k].id]) = Len(thr[t].held[k].bytes)
        /\ jheap[thr[t].held[k].id] = thr[t].held[k].bytes
  /\ \A t, u \in Threads : \A k \in 1..Len(thr[t].held) : \A j \in 1..Len(thr[u].held) :
        (thr[t].held[k].id = thr[u].held[j].id) => (t = u /\ k = j)

C16_Witness ==
  \E t \in Threads :
     /\ Len(thr[t].held) = 2
     /\ thr[t].held[1].bytes # thr[t].held[2].bytes
     /\ thr[t].pc = "idle"
     /\ thr[t].ret.kind = "bytes"

====
